---- MODULE Spec2Model ----
(***************************************************************************)
(* CalendarTransformer: EventTransformer.run and the pure functions it     *)
(* calls (src/calendar_transformer.py), as a state machine.                *)
(*                                                                         *)
(* Representation.                                                         *)
(*  - A text is a sequence of one-character strings; "X" stands for the    *)
(*    cancellation glyph, "\n" for a newline.  Python's None in a text     *)
(*    position is NoneT.                                                   *)
(*  - A uid is a natural number; NoUid is Python's None.  uuid4 values     *)
(*    are FreshBase + n, never equal to a source uid.                      *)
(*  - A time value is [date, v]: an all-day date (v counts days) or a UTC  *)
(*    instant (v counts hours).  NoTime is None.                           *)
(*  - A config value that may be absent, a string or a list is             *)
(*    [t, v] with v the list ensure_list returns for it.                   *)
(*  - A document that lacks SUMMARY has summary NoneT, one that lacks      *)
(*    DTSTART has dtstart NoTime.                                          *)
(*  - pc = "failed" is a run ended by an exception or by a kill; error     *)
(*    names the cause.                                                     *)
(*  - other holds the locals of a second invocation of run against the     *)
(*    same server; it takes its steps in SpecTwo only.                     *)
(*  - call is one call of match_event or transform_event on its own:       *)
(*    SpecFn draws the arguments and applies the function.                 *)
(***************************************************************************)
EXTENDS Integers, Sequences, FiniteSets, TLC

VARIABLES config, src, dest, pc, dest_events, events_to_delete, dest_keys,
          transformed, source_event_uids, remaining_events_to_delete,
          idx, next_uuid, runs, log, last_done,
          error, fetched, faulty, call, other

vars == <<config, src, dest, pc, dest_events, events_to_delete, dest_keys,
          transformed, source_event_uids, remaining_events_to_delete,
          idx, next_uuid, runs, log, last_done,
          error, fetched, faulty, call, other>>

\* what no step of a run changes: whether the server may fail a request and
\* the process may be killed; the call of a function on its own; the local
\* state of a second invocation of run
aux == <<faulty, call, other>>

---------------------------------------------------------------------------
(* Bounds of the model *)

MaxRuns == 2

MaxSrc == 2

MaxDest == 2

MaxKeep == 1

(* Program constants *)

Day == 24

Hour == 1

DefaultWindowDays == 365

Now == 82

NoUid == 0

FreshBase == 100

---------------------------------------------------------------------------
(* Texts *)

NoneT == <<"None">>

Cross == "X"

CancelMark == <<Cross>>

Declined == <<"D", "E", "C", "L", "I", "N", "E", "D">>

declined == <<"d", "e", "c", "l", "i", "n", "e", "d">>

DeclinedMixed == <<"D", "e", "c", "l", "i", "n", "e", "d">>

Accepted == <<"A", "C", "C", "E", "P", "T", "E", "D">>

TruthyText(s) == s # NoneT /\ s # <<>>

UpperChar(c) ==
  CASE c = "a" -> "A" [] c = "b" -> "B" [] c = "c" -> "C" [] c = "d" -> "D"
    [] c = "e" -> "E" [] c = "i" -> "I" [] c = "l" -> "L" [] c = "n" -> "N"
    [] c = "p" -> "P" [] c = "t" -> "T"
    [] OTHER -> c

Upper(s) == [k \in DOMAIN s |-> UpperChar(s[k])]

StartsWith(s, p) == Len(s) >= Len(p) /\ SubSeq(s, 1, Len(p)) = p

\* Python's `sub in val` for strings
Contains(sub, val) ==
  \E k \in 0..(Len(val) - Len(sub)) : SubSeq(val, k + 1, k + Len(sub)) = sub

\* str.replace('\n', ' ')
ReplaceNewlines(s) == [k \in DOMAIN s |-> IF s[k] = "\n" THEN " " ELSE s[k]]

RECURSIVE LStrip(_)
LStrip(s) == IF s # <<>> /\ Head(s) = " " THEN LStrip(Tail(s)) ELSE s

RECURSIVE RStrip(_)
RStrip(s) ==
  IF s # <<>> /\ s[Len(s)] = " " THEN RStrip(SubSeq(s, 1, Len(s) - 1)) ELSE s

\* val.replace('\n', ' ').strip()
Normalize(s) == RStrip(LStrip(ReplaceNewlines(s)))

---------------------------------------------------------------------------
(* Config values: absent, a string, or a list of strings *)

NoneV == [t |-> "none", v |-> <<>>]

StrV(s) == [t |-> "str", v |-> <<s>>]

ListV(l) == [t |-> "list", v |-> l]

\* Python truthiness of a config value
TruthyV(val) ==
  CASE val.t = "none" -> FALSE
    [] val.t = "str"  -> val.v[1] # <<>>
    [] OTHER          -> val.v # <<>>

ensure_list(val) == IF val.t = "none" THEN <<>> ELSE val.v

---------------------------------------------------------------------------
(* should_delete_event *)

should_delete_event_CaseSensitive(event) ==
  \/ TruthyText(event.rsvp) /\ event.rsvp = Declined
  \/ StartsWith(event.summary, CancelMark)

should_delete_event(event) ==
  \/ TruthyText(event.rsvp) /\ Upper(event.rsvp) = Declined
  \/ StartsWith(event.summary, CancelMark)

---------------------------------------------------------------------------
(* match_event *)

\* the nested match_substring of match_event, on a text val
match_substring_filter(val, substrings, negate) ==
  \/ substrings = <<>>
  \/ \A k \in DOMAIN substrings : Contains(substrings[k], val) # negate

\* `s in val` raises TypeError when val is None and the list is not empty
substring_raises(val, substrings) == val = NoneT /\ substrings # <<>>

\* "true", "false", or "raise" when the evaluation reaches `s in None`
match_result(event, filter_obj) ==
  LET f == filter_obj.filters
      cal_name == event.calendar
      summary == event.summary
      location == event.location
      nc == ensure_list(f.event_name_contains)
      nn == ensure_list(f.event_name_not_contains)
      lc == ensure_list(f.location_contains)
      ln == ensure_list(f.location_not_contains)
  IN  IF f.calendar_name # "" /\ cal_name # f.calendar_name THEN "false"
      ELSE IF f.not_calendar_name # "" /\ cal_name = f.not_calendar_name THEN "false"
      ELSE IF ~match_substring_filter(summary, nc, FALSE) THEN "false"
      ELSE IF ~match_substring_filter(summary, nn, TRUE) THEN "false"
      ELSE IF substring_raises(location, lc) THEN "raise"
      ELSE IF ~match_substring_filter(location, lc, FALSE) THEN "false"
      ELSE IF substring_raises(location, ln) THEN "raise"
      ELSE IF ~match_substring_filter(location, ln, TRUE) THEN "false"
      ELSE "true"

match_event(event, filter_obj) == match_result(event, filter_obj) = "true"

---------------------------------------------------------------------------
(* transform_event *)

\* the nested match_substring of transform_event
match_substring_strip(val, substrings, negate) ==
  /\ substrings # <<>>
  /\ LET v == IF TruthyText(val) THEN val ELSE <<>>
         normalized_val == Normalize(v)
     IN  \E k \in DOMAIN substrings :
           Contains(Normalize(substrings[k]), normalized_val) # negate

\* the strips are decided and applied on the record's own values, the
\* overrides come last
transform_event_StripFirst(event, t) ==
  LET name_guard == \/ t.strip_name
                    \/ TruthyV(t.strip_if_event_name_contains)
                    \/ TruthyV(t.strip_if_event_name_not_contains)
      do_strip_name ==
        IF ~name_guard THEN t.strip_name
        ELSE IF match_substring_strip(event.summary,
                  ensure_list(t.strip_if_event_name_not_contains), TRUE) THEN FALSE
        ELSE IF match_substring_strip(event.summary,
                  ensure_list(t.strip_if_event_name_contains), FALSE) THEN TRUE
        ELSE t.strip_name
      e1 == IF do_strip_name THEN [event EXCEPT !.summary = <<>>] ELSE event
      loc_guard == \/ t.strip_location
                   \/ TruthyV(t.strip_if_location_contains)
                   \/ TruthyV(t.strip_if_location_not_contains)
      do_strip_location ==
        IF ~loc_guard THEN t.strip_location
        ELSE IF match_substring_strip(event.location,
                  ensure_list(t.strip_if_location_not_contains), FALSE) THEN FALSE
        ELSE IF match_substring_strip(event.location,
                  ensure_list(t.strip_if_location_contains), FALSE) THEN TRUE
        ELSE t.strip_location
      e2 == IF do_strip_location THEN [e1 EXCEPT !.location = <<>>] ELSE e1
      e3 == IF t.set_event_name # NoneT
              THEN [e2 EXCEPT !.summary = t.set_event_name] ELSE e2
      e4 == IF t.set_location # NoneT
              THEN [e3 EXCEPT !.location = t.set_location] ELSE e3
  IN  IF t.set_rsvp_status # NoneT
        THEN [e4 EXCEPT !.rsvp = t.set_rsvp_status] ELSE e4

\* the contains check is evaluated last and wins
transform_event_ContainsWins(event, t) ==
  LET e1 == IF t.set_event_name # NoneT
              THEN [event EXCEPT !.summary = t.set_event_name] ELSE event
      e2 == IF t.set_location # NoneT
              THEN [e1 EXCEPT !.location = t.set_location] ELSE e1
      e3 == IF t.set_rsvp_status # NoneT
              THEN [e2 EXCEPT !.rsvp = t.set_rsvp_status] ELSE e2
      strip_name == t.strip_name
      name_guard == \/ strip_name
                    \/ TruthyV(t.strip_if_event_name_contains)
                    \/ TruthyV(t.strip_if_event_name_not_contains)
      name_hit == match_substring_strip(e3.summary,
                    ensure_list(t.strip_if_event_name_contains), FALSE)
      name_cancel == match_substring_strip(e3.summary,
                    ensure_list(t.strip_if_event_name_not_contains), TRUE)
      do_strip_name ==
        IF ~name_guard THEN strip_name
        ELSE IF name_hit THEN TRUE
        ELSE IF name_cancel THEN FALSE
        ELSE strip_name
      e4 == IF do_strip_name THEN [e3 EXCEPT !.summary = <<>>] ELSE e3
      strip_location == t.strip_location
      loc_guard == \/ strip_location
                   \/ TruthyV(t.strip_if_location_contains)
                   \/ TruthyV(t.strip_if_location_not_contains)
      loc_hit == match_substring_strip(e4.location,
                    ensure_list(t.strip_if_location_contains), FALSE)
      loc_cancel == match_substring_strip(e4.location,
                    ensure_list(t.strip_if_location_not_contains), FALSE)
      do_strip_location ==
        IF ~loc_guard THEN strip_location
        ELSE IF loc_cancel THEN FALSE
        ELSE IF loc_hit THEN TRUE
        ELSE strip_location
  IN  IF do_strip_location THEN [e4 EXCEPT !.location = <<>>] ELSE e4

transform_event(event, t) ==
  LET e1 == IF t.set_event_name # NoneT
              THEN [event EXCEPT !.summary = t.set_event_name] ELSE event
      e2 == IF t.set_location # NoneT
              THEN [e1 EXCEPT !.location = t.set_location] ELSE e1
      e3 == IF t.set_rsvp_status # NoneT
              THEN [e2 EXCEPT !.rsvp = t.set_rsvp_status] ELSE e2
      strip_name == t.strip_name
      name_guard == \/ strip_name
                    \/ TruthyV(t.strip_if_event_name_contains)
                    \/ TruthyV(t.strip_if_event_name_not_contains)
      name_hit == match_substring_strip(e3.summary,
                    ensure_list(t.strip_if_event_name_contains), FALSE)
      name_cancel == match_substring_strip(e3.summary,
                    ensure_list(t.strip_if_event_name_not_contains), TRUE)
      do_strip_name ==
        IF ~name_guard THEN strip_name
        ELSE IF name_cancel THEN FALSE
        ELSE IF name_hit THEN TRUE
        ELSE strip_name
      e4 == IF do_strip_name THEN [e3 EXCEPT !.summary = <<>>] ELSE e3
      strip_location == t.strip_location
      loc_guard == \/ strip_location
                   \/ TruthyV(t.strip_if_location_contains)
                   \/ TruthyV(t.strip_if_location_not_contains)
      loc_hit == match_substring_strip(e4.location,
                    ensure_list(t.strip_if_location_contains), FALSE)
      loc_cancel == match_substring_strip(e4.location,
                    ensure_list(t.strip_if_location_not_contains), FALSE)
      do_strip_location ==
        IF ~loc_guard THEN strip_location
        ELSE IF loc_cancel THEN FALSE
        ELSE IF loc_hit THEN TRUE
        ELSE strip_location
  IN  IF do_strip_location THEN [e4 EXCEPT !.location = <<>>] ELSE e4

---------------------------------------------------------------------------
(* event_uid *)

event_uid(event) ==
  IF event.original_uid # NoUid THEN event.original_uid ELSE event.uid

---------------------------------------------------------------------------
(* Times *)

NoTime == [date |-> FALSE, v |-> -1]

DateT(d) == [date |-> TRUE, v |-> d]

TimeT(h) == [date |-> FALSE, v |-> h]

\* x.astimezone(utc) for a datetime, datetime.combine(x, time.min, utc) for a date
ToAware(t) == IF t.date THEN t.v * Day ELSE t.v

\* "past_keep_days" / "future_scan_days": an integer or None
NoDays == [set |-> FALSE, n |-> 0]

Days(n) == [set |-> TRUE, n |-> n]

search_start_date(c) ==
  IF c.past_keep_days.set /\ c.past_keep_days.n >= 0
    THEN Now - c.past_keep_days.n * Day
    ELSE Now - DefaultWindowDays * Day

search_end_date(c) ==
  IF c.future_scan_days.set /\ c.future_scan_days.n > 0
    THEN Now + c.future_scan_days.n * Day
    ELSE Now + DefaultWindowDays * Day

---------------------------------------------------------------------------
(* The first pass over the destination: retention and the key set *)

\* the key a destination document is known by
dest_key(d) == IF d.x_original_uid # NoUid THEN d.x_original_uid ELSE d.uid

retention_delete_NegativeAsPositive(d, keep) ==
  /\ keep.set
  /\ IF keep.n = 0
       THEN d.dtend # NoTime /\ ToAware(d.dtend) < Now
       ELSE ToAware(d.dtstart) < Now - keep.n * Day

retention_delete_Inclusive(d, keep) ==
  /\ keep.set
  /\ IF keep.n = 0
       THEN d.dtend # NoTime /\ ToAware(d.dtend) <= Now
       ELSE keep.n > 0 /\ ToAware(d.dtstart) <= Now - keep.n * Day

retention_delete_StartBased(d, keep) ==
  /\ keep.set
  /\ IF keep.n = 0
       THEN ToAware(d.dtstart) < Now
       ELSE keep.n > 0 /\ ToAware(d.dtstart) < Now - keep.n * Day

\* should_delete of the first pass
retention_delete(d, keep) ==
  /\ keep.set
  /\ IF keep.n = 0
       THEN d.dtend # NoTime /\ ToAware(d.dtend) < Now
       ELSE keep.n > 0 /\ ToAware(d.dtstart) < Now - keep.n * Day

\* the try block of the first pass reads SUMMARY and DTSTART before anything
\* else; a document without one of them is logged and skipped
first_pass_parses(d) == d.summary # NoneT /\ d.dtstart # NoTime

first_pass_delete(docs, keep) ==
  LET old(d) == first_pass_parses(d) /\ retention_delete(d, keep)
  IN  SelectSeq(docs, old)

first_pass_keys(docs) ==
  {dest_key(docs[k]) : k \in {j \in DOMAIN docs : first_pass_parses(docs[j])}}

---------------------------------------------------------------------------
(* Fetching the sources *)

\* end of a document for the server's time-range test
doc_end(doc) ==
  IF doc.dtend # NoTime THEN ToAware(doc.dtend)
  ELSE IF doc.duration > 0 THEN ToAware(doc.dtstart) + doc.duration
  ELSE IF doc.dtstart.date THEN ToAware(doc.dtstart) + Day
  ELSE ToAware(doc.dtstart)

\* cal.search(start, end, event=True, expand=True): documents meeting the window
in_window(doc, start, end) ==
  /\ ToAware(doc.dtstart) < end
  /\ IF doc.dtend = NoTime /\ doc.duration = 0 /\ ~doc.dtstart.date
       THEN ToAware(doc.dtstart) >= start
       ELSE doc_end(doc) > start

\* dtstart + duration: a date ignores the part of a timedelta below a day
add_duration(t, dur) ==
  IF t.date THEN DateT(t.v + (dur \div Day)) ELSE TimeT(t.v + dur)

\* the event dict built from one fetched document; pos is the document's place
\* in its collection
extract_event(cal, doc, pos) ==
  [calendar |-> cal,
   uid      |-> doc.uid,
   summary  |-> doc.summary,
   dtstart  |-> doc.dtstart,
   dtend    |-> IF doc.duration > 0 /\ doc.dtend = NoTime
                  THEN add_duration(doc.dtstart, doc.duration) ELSE doc.dtend,
   location |-> doc.location,
   rsvp     |-> doc.rsvp,
   original_uid |-> NoUid,
   pos      |-> pos]

\* a document handed over as raw data that vobject.readOne cannot read
Unreadable ==
  [uid |-> NoUid, summary |-> NoneT, dtstart |-> NoTime, dtend |-> NoTime,
   duration |-> 0, location |-> NoneT, rsvp |-> <<>>]

RECURSIVE fetch_from(_, _, _, _)
fetch_from(cal, docs, k, c) ==
  IF k > Len(docs) THEN <<>>
  ELSE (IF /\ docs[k] # Unreadable
           /\ in_window(docs[k], search_start_date(c), search_end_date(c))
          THEN <<extract_event(cal, docs[k], k)>> ELSE <<>>)
       \o fetch_from(cal, docs, k + 1, c)

\* vevent.dtstart or vevent.summary is missing: AttributeError, not caught
extract_raises(doc) == doc.dtstart = NoTime \/ doc.summary = NoneT

\* the extraction loop over the documents of cal raises
fetch_raises(cal, sources, c) ==
  /\ cal \in DOMAIN sources
  /\ \E k \in DOMAIN sources[cal] :
       /\ sources[cal][k] # Unreadable
       /\ in_window(sources[cal][k], search_start_date(c), search_end_date(c))
       /\ extract_raises(sources[cal][k])

\* source_events_by_cal[cal_name]; a collection that is not found gives []
source_events(cal, sources, c) ==
  IF cal \in DOMAIN sources THEN fetch_from(cal, sources[cal], 1, c) ELSE <<>>

---------------------------------------------------------------------------
(* Filtering and transforming *)

\* filter sets whose collection is not used: no name, or the destination
skipped_filter(filter_obj, c) ==
  \/ filter_obj.filters.calendar_name = ""
  \/ filter_obj.filters.calendar_name = c.dest_calendar

copy_with_origin(e) == [e EXCEPT !.original_uid = e.uid]

RECURSIVE transform_filtered_NoDeclineSkip(_, _, _)
transform_filtered_NoDeclineSkip(events, k, filter_obj) ==
  IF k > Len(events) THEN <<>>
  ELSE (IF match_event(events[k], filter_obj)
          THEN <<transform_event(copy_with_origin(events[k]),
                                 filter_obj.transformations)>>
          ELSE <<>>)
       \o transform_filtered_NoDeclineSkip(events, k + 1, filter_obj)

\* the records one filter set adds to `transformed`
RECURSIVE transform_filtered(_, _, _)
transform_filtered(events, k, filter_obj) ==
  IF k > Len(events) THEN <<>>
  ELSE (IF match_event(events[k], filter_obj) /\ ~should_delete_event(events[k])
          THEN <<transform_event(copy_with_origin(events[k]),
                                 filter_obj.transformations)>>
          ELSE <<>>)
       \o transform_filtered(events, k + 1, filter_obj)

\* the filter-set loop on records that are transformed in place: cache holds,
\* for each collection, the fetched records as the earlier filter sets left them
RECURSIVE build_shared(_, _, _)
build_shared(k, cache, c) ==
  IF k > Len(c.filter_sets) THEN <<>>
  ELSE LET f == c.filter_sets[k]
           cal == f.filters.calendar_name
       IN  IF skipped_filter(f, c) \/ cal \notin DOMAIN cache
             THEN build_shared(k + 1, cache, c)
             ELSE LET evs == cache[cal]
                      new == [j \in DOMAIN evs |->
                                IF match_event(evs[j], f) /\ ~should_delete_event(evs[j])
                                  THEN transform_event(copy_with_origin(evs[j]),
                                                       f.transformations)
                                  ELSE evs[j]]
                  IN  transform_filtered(evs, 1, f)
                        \o build_shared(k + 1, [cache EXCEPT ![cal] = new], c)

\* transform_event is applied to the cached record itself, not to a copy
build_transformed_NoCopy(k, sources, c) ==
  build_shared(k, [cal \in DOMAIN sources |-> source_events(cal, sources, c)], c)

RECURSIVE build_transformed(_, _, _)
build_transformed(k, sources, c) ==
  IF k > Len(c.filter_sets) THEN <<>>
  ELSE (IF skipped_filter(c.filter_sets[k], c) THEN <<>>
        ELSE transform_filtered(
               source_events(c.filter_sets[k].filters.calendar_name, sources, c),
               1, c.filter_sets[k]))
       \o build_transformed(k + 1, sources, c)

\* where the filter-set loop stops: at = Len + 1 and error = "" when it runs
\* through, else the filter set at which an exception leaves run
RECURSIVE filter_loop_end(_, _, _)
filter_loop_end(k, sources, c) ==
  IF k > Len(c.filter_sets) THEN [at |-> k, error |-> ""]
  ELSE LET f == c.filter_sets[k]
           cal == f.filters.calendar_name
           evs == source_events(cal, sources, c)
       IN  IF skipped_filter(f, c) THEN filter_loop_end(k + 1, sources, c)
           ELSE IF fetch_raises(cal, sources, c) THEN [at |-> k, error |-> "parse"]
           ELSE IF \E j \in DOMAIN evs : match_result(evs[j], f) = "raise"
                  THEN [at |-> k, error |-> "match"]
           ELSE filter_loop_end(k + 1, sources, c)

\* the collections cal.search was called on when the loop stopped at filter set at
searched_until(at, sources, c) ==
  {c.filter_sets[k].filters.calendar_name :
     k \in {j \in DOMAIN c.filter_sets :
              /\ j <= at
              /\ ~skipped_filter(c.filter_sets[j], c)
              /\ c.filter_sets[j].filters.calendar_name \in DOMAIN sources}}

uids_of(trs) == {event_uid(trs[k]) : k \in DOMAIN trs}

---------------------------------------------------------------------------
(* The second pass over the destination *)

seq_has(s, x) == \E k \in DOMAIN s : s[k] = x

\* next(ev for ev in transformed if event_uid(ev) == current_uid): its index, 0 for None
first_with_uid(trs, uid) ==
  IF \E k \in DOMAIN trs : event_uid(trs[k]) = uid
    THEN CHOOSE k \in DOMAIN trs :
           /\ event_uid(trs[k]) = uid
           /\ \A j \in 1..(k - 1) : event_uid(trs[j]) # uid
    ELSE 0

\* the orphan test without the test for the origin field
orphan_trigger_AnyRecord(d, uids) == dest_key(d) \notin uids

orphan_trigger(d, uids) == d.x_original_uid # NoUid /\ dest_key(d) \notin uids

cancel_trigger(d) == StartsWith(d.summary, CancelMark)

decline_trigger(d, trs) ==
  LET k == first_with_uid(trs, dest_key(d))
  IN  k # 0 /\ should_delete_event(trs[k])

second_pass_mark_NoOrphan(d, trs, uids) ==
  \/ cancel_trigger(d)
  \/ decline_trigger(d, trs)

second_pass_mark_NoCancel(d, trs, uids) ==
  \/ orphan_trigger(d, uids)
  \/ ~orphan_trigger(d, uids) /\ decline_trigger(d, trs)

\* the if / elif / else of the second pass
second_pass_mark(d, trs, uids) ==
  IF orphan_trigger(d, uids) THEN TRUE
  ELSE IF cancel_trigger(d) THEN TRUE
  ELSE decline_trigger(d, trs)

\* vevent.summary of the second pass is read outside any try block
second_pass_raises(docs, already) ==
  \E k \in DOMAIN docs : ~seq_has(already, docs[k]) /\ docs[k].summary = NoneT

second_pass_delete(docs, already, trs, uids) ==
  LET marked(d) == ~seq_has(already, d) /\ second_pass_mark(d, trs, uids)
  IN  SelectSeq(docs, marked)

---------------------------------------------------------------------------
(* sanitize_text and event_to_ical *)

RECURSIVE escape_chars(_)
escape_chars(s) ==
  IF s = <<>> THEN <<>>
  ELSE (CASE Head(s) = "\\" -> <<"\\", "\\">>
          [] Head(s) = ";"  -> <<"\\", ";">>
          [] Head(s) = ","  -> <<"\\", ",">>
          [] Head(s) = "\n" -> <<"\\", "n">>
          [] OTHER          -> <<Head(s)>>)
       \o escape_chars(Tail(s))

sanitize_text(text) == IF ~TruthyText(text) THEN <<>> ELSE escape_chars(text)

\* the destination document written for a transformed record, with a fresh UID
event_to_ical(event, uuid) ==
  LET dtstart == event.dtstart
      dtend == event.dtend
      is_all_day == dtstart.date
      out_end ==
        IF is_all_day
          THEN IF dtend # NoTime
                 THEN (IF dtend.date THEN dtend ELSE DateT(dtend.v \div Day))
                 ELSE DateT(dtstart.v + 1)
          ELSE IF dtend = NoTime THEN TimeT(dtstart.v + Hour)
               ELSE TimeT(ToAware(dtend))
  IN  [uid            |-> uuid,
       x_original_uid |-> event.original_uid,
       summary        |-> event.summary,
       dtstart        |-> dtstart,
       dtend          |-> out_end,
       location       |-> IF TruthyText(event.location)
                            THEN sanitize_text(event.location) ELSE NoneT,
       rsvp           |-> IF TruthyText(event.rsvp) THEN event.rsvp ELSE <<>>]

remove_doc(docs, d) == LET keep(x) == x # d IN SelectSeq(docs, keep)

---------------------------------------------------------------------------
(* Inputs: configurations, source collections, destination contents *)

NoFilters ==
  [calendar_name |-> "", not_calendar_name |-> "",
   event_name_contains |-> NoneV, event_name_not_contains |-> NoneV,
   location_contains |-> NoneV, location_not_contains |-> NoneV]

NoTransformations ==
  [set_event_name |-> NoneT, set_location |-> NoneT, set_rsvp_status |-> NoneT,
   strip_name |-> FALSE, strip_if_event_name_contains |-> NoneV,
   strip_if_event_name_not_contains |-> NoneV,
   strip_location |-> FALSE, strip_if_location_contains |-> NoneV,
   strip_if_location_not_contains |-> NoneV]

FilterOn(cal, t) ==
  [filters |-> [NoFilters EXCEPT !.calendar_name = cal], transformations |-> t]

Busy == [NoTransformations EXCEPT !.set_event_name = <<"b">>, !.strip_location = TRUE]

SetDeclined == [NoTransformations EXCEPT !.set_rsvp_status = declined]

\* the filter-set lists the configurations are drawn from
FilterSetChoices ==
  { <<FilterOn("Work", NoTransformations)>>,
    <<FilterOn("Work", Busy), FilterOn("Work", SetDeclined)>>,
    <<FilterOn("Home", Busy), FilterOn("Dest", Busy), FilterOn("Gone", Busy),
      FilterOn("Work", NoTransformations)>>,
    <<[filters |-> [NoFilters EXCEPT !.calendar_name = "Work",
                                     !.event_name_not_contains = StrV(<<"b">>),
                                     !.location_contains = ListV(<<<<"a">>>>)],
       transformations |-> Busy]>> }

SrcDoc(uid, summary, rsvp, dtstart, dtend) ==
  [uid |-> uid, summary |-> summary, dtstart |-> dtstart, dtend |-> dtend,
   duration |-> 0, location |-> <<"a">>, rsvp |-> rsvp]

\* documents of the source collection "Work"
SrcPool ==
  << SrcDoc(1, <<"a">>, Accepted, TimeT(Now + 1), TimeT(Now + 2)),
     SrcDoc(1, <<"a">>, declined, TimeT(Now + 1), TimeT(Now + 2)),
     SrcDoc(2, <<Cross, "a">>, Accepted, TimeT(Now + 1), NoTime),
     SrcDoc(2, <<"a", "b">>, <<>>, TimeT(Now - (MaxKeep + 1) * Day), TimeT(Now + 1)),
     SrcDoc(NoUid, <<"a">>, Accepted, TimeT(Now + 1), TimeT(Now + 2)),
     SrcDoc(2, <<"a">>, DeclinedMixed, DateT(Now \div Day), NoTime) >>

HomeDocs ==
  << [SrcDoc(2, <<"a">>, Accepted, DateT(Now \div Day), NoTime)
        EXCEPT !.duration = Day, !.location = NoneT] >>

DestDoc(uid, xuid, summary, rsvp, dtstart, dtend) ==
  [uid |-> uid, x_original_uid |-> xuid, summary |-> summary,
   dtstart |-> dtstart, dtend |-> dtend, location |-> NoneT, rsvp |-> rsvp]

\* documents the destination may hold when a run starts: earlier inserts of the
\* program (with an origin uid) and documents of other origin (without)
DestPool ==
  << DestDoc(51, 1, <<"a">>, Accepted, TimeT(Now - MaxKeep * Day), TimeT(Now)),
     DestDoc(52, 2, <<"a", "b">>, <<>>, TimeT(Now - (MaxKeep + 1) * Day), TimeT(Now + 1)),
     DestDoc(53, NoUid, <<Cross, "a">>, <<>>, TimeT(Now + 1), TimeT(Now + 2)),
     DestDoc(54, NoUid, <<"a">>, declined, TimeT(Now - (MaxKeep + 1) * Day), TimeT(Now - 1)),
     DestDoc(55, 1, <<"b">>, declined, TimeT(Now + 1), TimeT(Now + 2)),
     DestDoc(1, NoUid, <<"a">>, <<>>, TimeT(Now + 1), NoTime),
     DestDoc(57, 3, <<Cross>>, <<>>, DateT(Now \div Day), DateT((Now \div Day) + 1)) >>

\* the elements of pool at the positions in S, in the pool's order
RECURSIVE Pick(_, _, _)
Pick(pool, S, k) ==
  IF k > Len(pool) THEN <<>>
  ELSE (IF k \in S THEN <<pool[k]>> ELSE <<>>) \o Pick(pool, S, k + 1)

Choices(pool, max) ==
  {Pick(pool, S, 1) : S \in {T \in SUBSET (1..Len(pool)) : Cardinality(T) <= max}}

KeepChoices == {NoDays, Days(-1), Days(0)} \cup {Days(n) : n \in 1..MaxKeep}

---------------------------------------------------------------------------
(* run *)

Idle ==
  /\ pc = "idle"
  /\ dest_events = <<>>
  /\ events_to_delete = <<>>
  /\ dest_keys = {}
  /\ transformed = <<>>
  /\ source_event_uids = {}
  /\ remaining_events_to_delete = <<>>
  /\ idx = 1
  /\ next_uuid = FreshBase
  /\ runs = 0
  /\ log = <<>>
  /\ last_done = FALSE
  /\ error = ""
  /\ fetched = {}

\* inputs for runs on a server that answers every request
ReliableInputs ==
  /\ \E fs \in FilterSetChoices, keep \in KeepChoices :
       config = [filter_sets |-> fs, dest_calendar |-> "Dest",
                 past_keep_days |-> keep, future_scan_days |-> NoDays]
  /\ \E w \in Choices(SrcPool, MaxSrc) : src = [c \in {"Work", "Home"} |->
                                                 IF c = "Work" THEN w ELSE HomeDocs]
  /\ dest \in Choices(DestPool, MaxDest)
  /\ faulty = FALSE

\* documents of "Work" for the runs with failures: two good ones, one without
\* SUMMARY, one that cannot be read
FaultSrcPool ==
  << SrcPool[1],
     SrcPool[4],
     SrcDoc(3, NoneT, Accepted, TimeT(Now + 1), TimeT(Now + 2)),
     Unreadable >>

\* destination documents for the runs with failures: an old copy, an orphan,
\* and a document without SUMMARY
FaultDestPool ==
  << DestPool[2],
     DestPool[7],
     DestDoc(58, 1, NoneT, <<>>, TimeT(Now + 1), TimeT(Now + 2)) >>

\* inputs for runs in which a request may fail, the process may be killed, a
\* document may be broken and the destination name may be unknown
FaultyInputs ==
  /\ \E fs \in {<<FilterOn("Work", NoTransformations)>>,
                <<FilterOn("Work", Busy), FilterOn("Work", SetDeclined)>>},
        keep \in {NoDays, Days(MaxKeep)},
        name \in {"Dest", "Nowhere"} :
       config = [filter_sets |-> fs, dest_calendar |-> name,
                 past_keep_days |-> keep, future_scan_days |-> NoDays]
  /\ \E w \in Choices(FaultSrcPool, MaxSrc) : src = [c \in {"Work", "Home"} |->
                                                      IF c = "Work" THEN w ELSE HomeDocs]
  /\ dest \in Choices(FaultDestPool, MaxDest)
  /\ faulty = TRUE

\* an override of summary and location with the unconditional location strip
BusyOffice == [Busy EXCEPT !.set_location = <<"x">>]

\* destination documents for the runs with the rules below: a copy of the
\* record with uid 1, an old copy of the record with uid 2, and a document of
\* other origin stored under the uid 1
RuleDestPool == << DestPool[1], DestPool[2], DestPool[6] >>

\* inputs for runs under one rule that sets the status to declined, or one that
\* overrides the location and strips it, on a server that answers every request
RuleInputs ==
  /\ \E t \in {SetDeclined, BusyOffice}, keep \in {NoDays, Days(MaxKeep)} :
       config = [filter_sets |-> <<FilterOn("Work", t)>>, dest_calendar |-> "Dest",
                 past_keep_days |-> keep, future_scan_days |-> NoDays]
  /\ \E w \in Choices(<<SrcPool[1], SrcPool[4]>>, MaxSrc) :
       src = [c \in {"Work", "Home"} |-> IF c = "Work" THEN w ELSE HomeDocs]
  /\ dest \in Choices(RuleDestPool, MaxDest)
  /\ faulty = FALSE

\* no function is called on its own
NoCall == [fn |-> "none", state |-> "returned"]

\* the second invocation has not started
OtherIdle ==
  [pc |-> "idle", dest_events |-> <<>>, events_to_delete |-> <<>>, dest_keys |-> {},
   transformed |-> <<>>, remaining_events_to_delete |-> <<>>, idx |-> 1]

Init ==
  /\ ReliableInputs \/ FaultyInputs \/ RuleInputs
  /\ Idle
  /\ call = NoCall
  /\ other = OtherIdle

phase_after_InsertFirst(p) ==
  CASE p = "delete_old"       -> "filter_transform"
    [] p = "filter_transform" -> "insert"
    [] p = "insert"           -> "delete_remaining"
    [] OTHER                  -> "done"

\* the order of the loops of run
phase_after(p) ==
  CASE p = "delete_old"       -> "filter_transform"
    [] p = "filter_transform" -> "delete_remaining"
    [] p = "delete_remaining" -> "insert"
    [] OTHER                  -> "done"

\* the collections the server knows by name
Collections == DOMAIN src \cup {"Dest"}

dest_found_Always(c) == TRUE

\* cal_map.get(self.dest_calendar) is a collection
dest_found(c) == c.dest_calendar \in Collections

\* the destination is looked up and read; the first pass marks the old documents
StartRun ==
  /\ pc \in {"idle", "done", "failed"}
  /\ runs < MaxRuns
  /\ runs' = runs + 1
  /\ last_done' = (pc = "done")
  /\ IF dest_found(config)
       THEN /\ dest_events' = dest
            /\ dest_keys' = first_pass_keys(dest)
            /\ events_to_delete' = first_pass_delete(dest, config.past_keep_days)
            /\ pc' = "delete_old"
            /\ error' = ""
       ELSE /\ dest_events' = <<>>
            /\ dest_keys' = {}
            /\ events_to_delete' = <<>>
            /\ pc' = "failed"
            /\ error' = "config"
  /\ transformed' = <<>>
  /\ source_event_uids' = {}
  /\ remaining_events_to_delete' = <<>>
  /\ idx' = 1
  /\ log' = <<>>
  /\ fetched' = {}
  /\ UNCHANGED <<config, src, dest, next_uuid>>
  /\ UNCHANGED aux

\* for e in events_to_delete: e.delete()
DeleteOld ==
  /\ pc = "delete_old"
  /\ IF idx <= Len(events_to_delete)
       THEN /\ dest' = remove_doc(dest, events_to_delete[idx])
            /\ log' = Append(log, [op |-> "delete", doc |-> events_to_delete[idx]])
            /\ idx' = idx + 1
            /\ pc' = pc
       ELSE /\ pc' = phase_after(pc)
            /\ idx' = 1
            /\ UNCHANGED <<dest, log>>
  /\ UNCHANGED <<config, src, dest_events, events_to_delete, dest_keys, transformed,
                 source_event_uids, remaining_events_to_delete, next_uuid, runs,
                 last_done, error, fetched>>
  /\ UNCHANGED aux

\* the filter-set loop, source_event_uids and the second pass
FilterTransform ==
  /\ pc = "filter_transform"
  /\ LET stop == filter_loop_end(1, src, config)
         trs == build_transformed(1, src, config)
     IN  /\ fetched' = searched_until(stop.at, src, config)
         /\ IF stop.error # ""
              THEN /\ pc' = "failed"
                   /\ error' = stop.error
                   /\ UNCHANGED <<transformed, source_event_uids,
                                  remaining_events_to_delete>>
              ELSE /\ transformed' = trs
                   /\ source_event_uids' = uids_of(trs)
                   /\ IF second_pass_raises(dest_events, events_to_delete)
                        THEN /\ pc' = "failed"
                             /\ error' = "parse"
                             /\ UNCHANGED remaining_events_to_delete
                        ELSE /\ remaining_events_to_delete' =
                                  second_pass_delete(dest_events, events_to_delete,
                                                     trs, uids_of(trs))
                             /\ pc' = phase_after(pc)
                             /\ error' = error
  /\ idx' = 1
  /\ UNCHANGED <<config, src, dest, dest_events, events_to_delete, dest_keys,
                 next_uuid, runs, log, last_done>>
  /\ UNCHANGED aux

\* for e in remaining_events_to_delete: e.delete()
DeleteRemaining ==
  /\ pc = "delete_remaining"
  /\ IF idx <= Len(remaining_events_to_delete)
       THEN /\ dest' = remove_doc(dest, remaining_events_to_delete[idx])
            /\ log' = Append(log, [op |-> "delete",
                                   doc |-> remaining_events_to_delete[idx]])
            /\ idx' = idx + 1
            /\ pc' = pc
       ELSE /\ pc' = phase_after(pc)
            /\ idx' = 1
            /\ UNCHANGED <<dest, log>>
  /\ UNCHANGED <<config, src, dest_events, events_to_delete, dest_keys, transformed,
                 source_event_uids, remaining_events_to_delete, next_uuid, runs,
                 last_done, error, fetched>>
  /\ UNCHANGED aux

\* no key is ever taken as known
insert_gate_Never(key, keys, docs) == FALSE

insert_gate_Updating(key, keys, docs) == key \in keys \cup first_pass_keys(docs)

\* `if key in dest_keys: continue`
insert_gate(key, keys, docs) == key \in keys

\* a known key updates the document in place
insert_step_Upsert(docs, e, keys, uuid) ==
  IF insert_gate(event_uid(e), keys, docs)
    THEN [k \in DOMAIN docs |->
            IF dest_key(docs[k]) = event_uid(e)
              THEN event_to_ical(e, docs[k].uid) ELSE docs[k]]
    ELSE Append(docs, event_to_ical(e, uuid))

\* one turn of the insert loop on the documents of the collection written to
insert_step(docs, e, keys, uuid) ==
  IF insert_gate(event_uid(e), keys, docs) THEN docs
  ELSE Append(docs, event_to_ical(e, uuid))

\* the transformed record is saved back into the collection it was read from
save_target_Source(c, e) == e.calendar

\* the collection save_event is called on: dest_cal
save_target(c, e) == c.dest_calendar

\* for e in transformed: skip a known key, else save_event(event_to_ical(e))
InsertNew ==
  /\ pc = "insert"
  /\ IF idx <= Len(transformed)
       THEN LET e == transformed[idx]
                cal == save_target(config, e)
            IN  /\ IF cal \in DOMAIN src
                     THEN /\ src' = [src EXCEPT
                                       ![cal] = insert_step(@, e, dest_keys, next_uuid)]
                          /\ dest' = dest
                     ELSE /\ dest' = insert_step(dest, e, dest_keys, next_uuid)
                          /\ src' = src
                /\ IF insert_gate(event_uid(e), dest_keys, dest)
                     THEN UNCHANGED <<log, next_uuid>>
                     ELSE /\ log' = Append(log, [op |-> "insert",
                                                 doc |-> event_to_ical(e, next_uuid),
                                                 from |-> e])
                          /\ next_uuid' = next_uuid + 1
                /\ idx' = idx + 1
                /\ pc' = pc
       ELSE /\ pc' = phase_after(pc)
            /\ idx' = 1
            /\ UNCHANGED <<src, dest, log, next_uuid>>
  /\ UNCHANGED <<config, dest_events, events_to_delete, dest_keys, transformed,
                 source_event_uids, remaining_events_to_delete, runs, last_done,
                 error, fetched>>
  /\ UNCHANGED aux

\* the loop at pc is about to send a delete or an insert to the server
mutation_pending ==
  CASE pc = "delete_old"       -> idx <= Len(events_to_delete)
    [] pc = "delete_remaining" -> idx <= Len(remaining_events_to_delete)
    [] pc = "insert"           -> /\ idx <= Len(transformed)
                                  /\ ~insert_gate(event_uid(transformed[idx]),
                                                  dest_keys, dest)
    [] OTHER                   -> FALSE

\* e.delete() or save_event raises: neither call is inside a try block, the
\* exception leaves run and main
MutationFails ==
  /\ faulty
  /\ mutation_pending
  /\ pc' = "failed"
  /\ error' = IF pc = "insert" THEN "insert" ELSE "delete"
  /\ UNCHANGED <<config, src, dest, dest_events, events_to_delete, dest_keys,
                 transformed, source_event_uids, remaining_events_to_delete, idx,
                 next_uuid, runs, log, last_done, fetched>>
  /\ UNCHANGED aux

\* the process is killed between two steps of run
Kill ==
  /\ faulty
  /\ pc \in {"delete_old", "filter_transform", "delete_remaining", "insert"}
  /\ pc' = "failed"
  /\ error' = "killed"
  /\ UNCHANGED <<config, src, dest, dest_events, events_to_delete, dest_keys,
                 transformed, source_event_uids, remaining_events_to_delete, idx,
                 next_uuid, runs, log, last_done, fetched>>
  /\ UNCHANGED aux

Next ==
  \/ StartRun
  \/ DeleteOld
  \/ FilterTransform
  \/ DeleteRemaining
  \/ InsertNew
  \/ MutationFails
  \/ Kill

Spec == Init /\ [][Next]_vars

---------------------------------------------------------------------------
(* Two invocations of run against the same server *)

\* the next statement of the second invocation: the same loops as above, on
\* its own locals and on the shared destination
OtherStep ==
  /\ other.pc \in {"idle", "delete_old", "filter_transform", "delete_remaining",
                   "insert"}
  /\ CASE other.pc = "idle" ->
            /\ other' =
                 IF dest_found(config)
                   THEN [OtherIdle EXCEPT
                           !.pc = "delete_old",
                           !.dest_events = dest,
                           !.dest_keys = first_pass_keys(dest),
                           !.events_to_delete =
                              first_pass_delete(dest, config.past_keep_days)]
                   ELSE [OtherIdle EXCEPT !.pc = "failed"]
            /\ UNCHANGED <<dest, next_uuid>>
       [] other.pc = "delete_old" ->
            /\ IF other.idx <= Len(other.events_to_delete)
                 THEN /\ dest' = remove_doc(dest, other.events_to_delete[other.idx])
                      /\ other' = [other EXCEPT !.idx = @ + 1]
                 ELSE /\ dest' = dest
                      /\ other' = [other EXCEPT !.pc = phase_after(@), !.idx = 1]
            /\ UNCHANGED next_uuid
       [] other.pc = "filter_transform" ->
            /\ LET trs == build_transformed(1, src, config)
               IN  other' =
                     IF \/ filter_loop_end(1, src, config).error # ""
                        \/ second_pass_raises(other.dest_events, other.events_to_delete)
                       THEN [other EXCEPT !.pc = "failed"]
                       ELSE [other EXCEPT
                               !.transformed = trs,
                               !.remaining_events_to_delete =
                                  second_pass_delete(other.dest_events,
                                                     other.events_to_delete,
                                                     trs, uids_of(trs)),
                               !.pc = phase_after(@),
                               !.idx = 1]
            /\ UNCHANGED <<dest, next_uuid>>
       [] other.pc = "delete_remaining" ->
            /\ IF other.idx <= Len(other.remaining_events_to_delete)
                 THEN /\ dest' = remove_doc(dest,
                                    other.remaining_events_to_delete[other.idx])
                      /\ other' = [other EXCEPT !.idx = @ + 1]
                 ELSE /\ dest' = dest
                      /\ other' = [other EXCEPT !.pc = phase_after(@), !.idx = 1]
            /\ UNCHANGED next_uuid
       [] other.pc = "insert" ->
            IF other.idx <= Len(other.transformed)
              THEN LET e == other.transformed[other.idx]
                   IN  /\ dest' = insert_step(dest, e, other.dest_keys, next_uuid)
                       /\ next_uuid' =
                            IF insert_gate(event_uid(e), other.dest_keys, dest)
                              THEN next_uuid ELSE next_uuid + 1
                       /\ other' = [other EXCEPT !.idx = @ + 1]
              ELSE /\ other' = [other EXCEPT !.pc = phase_after(@), !.idx = 1]
                   /\ UNCHANGED <<dest, next_uuid>>
  /\ UNCHANGED <<config, src, pc, dest_events, events_to_delete, dest_keys,
                 transformed, source_event_uids, remaining_events_to_delete, idx,
                 runs, log, last_done, error, fetched, faulty, call>>

\* source documents with identities that are all distinct
TwoSrcPool == << SrcPool[1], SrcPool[4] >>

TwoDestPool == << DestPool[2], DestPool[7] >>

\* two invocations, each running once, on a server that answers every request
InitTwo ==
  /\ \E keep \in {NoDays, Days(MaxKeep)} :
       config = [filter_sets |-> <<FilterOn("Work", Busy)>>, dest_calendar |-> "Dest",
                 past_keep_days |-> keep, future_scan_days |-> NoDays]
  /\ \E w \in Choices(TwoSrcPool, MaxSrc) : src = [c \in {"Work", "Home"} |->
                                                    IF c = "Work" THEN w ELSE HomeDocs]
  /\ dest \in Choices(TwoDestPool, MaxDest)
  /\ faulty = FALSE
  /\ call = NoCall
  /\ other = OtherIdle
  /\ pc = "idle"
  /\ dest_events = <<>>
  /\ events_to_delete = <<>>
  /\ dest_keys = {}
  /\ transformed = <<>>
  /\ source_event_uids = {}
  /\ remaining_events_to_delete = <<>>
  /\ idx = 1
  /\ next_uuid = FreshBase
  /\ runs = MaxRuns - 1
  /\ log = <<>>
  /\ last_done = FALSE
  /\ error = ""
  /\ fetched = {}

NextTwo ==
  \/ StartRun
  \/ DeleteOld
  \/ FilterTransform
  \/ DeleteRemaining
  \/ InsertNew
  \/ OtherStep

SpecTwo == InitTwo /\ [][NextTwo]_vars

---------------------------------------------------------------------------
(* match_event and transform_event called on their own *)

\* an event dict as the extraction builds it
FnEvent(cal, summary, location) ==
  [calendar |-> cal, uid |-> 1, summary |-> summary, dtstart |-> TimeT(Now + 1),
   dtend |-> TimeT(Now + 2), location |-> location, rsvp |-> Accepted,
   original_uid |-> 1, pos |-> 1]

FnEvents ==
  {FnEvent(cal, summary, location) :
     cal \in {"Work", "Home"},
     summary \in {<<>>, <<"a">>, <<"a", "b">>, <<"b", "\n">>},
     location \in {NoneT, <<>>, <<"a">>, <<"b", "a">>}}

\* values of a filter key: absent, a string, an empty list, a list
FilterValues == {NoneV, StrV(<<"a">>), ListV(<<>>), ListV(<< <<"a">>, <<"b">> >>)}

FnFilters ==
  {[filters |-> [calendar_name |-> cn, not_calendar_name |-> ncn,
                 event_name_contains |-> a, event_name_not_contains |-> b,
                 location_contains |-> c, location_not_contains |-> d],
    transformations |-> NoTransformations] :
     cn \in {"", "Work"}, ncn \in {"", "Home"},
     a \in FilterValues, b \in FilterValues, c \in FilterValues, d \in FilterValues}

\* values of a strip-if key: absent, a string, an empty list, lists; the
\* second list has an entry that normalizes to "a"
StripValues ==
  {NoneV, StrV(<<"a">>), ListV(<<>>), ListV(<< <<"b">>, <<"c">> >>),
   ListV(<< <<"a", "\n">> >>)}

FnTransformations ==
  {[NoTransformations EXCEPT !.set_event_name = n, !.strip_name = s,
                             !.strip_if_event_name_contains = a,
                             !.strip_if_event_name_not_contains = b] :
     n \in {NoneT, <<"b">>}, s \in BOOLEAN, a \in StripValues, b \in StripValues}

\* rules on the location: override, unconditional flag and the two lists
FnLocationTransformations ==
  {[NoTransformations EXCEPT !.set_location = n, !.strip_location = s,
                             !.strip_if_location_contains = a,
                             !.strip_if_location_not_contains = b] :
     n \in {NoneT, <<"b">>}, s \in BOOLEAN, a \in StripValues, b \in StripValues}

InitFn ==
  /\ config = [filter_sets |-> <<>>, dest_calendar |-> "Dest",
               past_keep_days |-> NoDays, future_scan_days |-> NoDays]
  /\ src = [c \in {"Work", "Home"} |-> <<>>]
  /\ dest = <<>>
  /\ faulty = FALSE
  /\ other = OtherIdle
  /\ Idle
  /\ \/ \E e \in FnEvents, f \in FnFilters :
          call = [fn |-> "match", event |-> e, arg |-> f, state |-> "called"]
     \/ \E e \in FnEvents, t \in FnTransformations \cup FnLocationTransformations :
          call = [fn |-> "transform", event |-> e, arg |-> t, state |-> "called"]

\* match_event(event, filter_obj) runs to its return or to its exception
CallMatch ==
  /\ call.fn = "match"
  /\ call.state = "called"
  /\ call' = [fn |-> "match", event |-> call.event, arg |-> call.arg,
              state |-> "returned",
              result |-> match_result(call.event, call.arg)]
  /\ UNCHANGED <<config, src, dest, pc, dest_events, events_to_delete, dest_keys,
                 transformed, source_event_uids, remaining_events_to_delete, idx,
                 next_uuid, runs, log, last_done, error, fetched, faulty, other>>

\* transform_event(event, transformation) returns the event
CallTransform ==
  /\ call.fn = "transform"
  /\ call.state = "called"
  /\ call' = [fn |-> "transform", event |-> call.event, arg |-> call.arg,
              state |-> "returned",
              result |-> transform_event(call.event, call.arg)]
  /\ UNCHANGED <<config, src, dest, pc, dest_events, events_to_delete, dest_keys,
                 transformed, source_event_uids, remaining_events_to_delete, idx,
                 next_uuid, runs, log, last_done, error, fetched, faulty, other>>

NextFn == CallMatch \/ CallTransform

SpecFn == InitFn /\ [][NextFn]_vars

---------------------------------------------------------------------------
(* Vocabulary of the properties *)

Done == pc = "done"

InDest(d) == seq_has(dest, d)

AtStart(d) == seq_has(dest_events, d)

Docs(s) == {s[k] : k \in DOMAIN s}

\* number of documents of docs known by the identity key
KeyCount(docs, key) == Cardinality({k \in DOMAIN docs : dest_key(docs[k]) = key})

KeysOf(docs) == {dest_key(docs[k]) : k \in DOMAIN docs}

\* number of documents of docs carrying the origin identity uid
OriginCount(docs, uid) ==
  Cardinality({k \in DOMAIN docs : docs[k].x_original_uid = uid})

\* "DECLINED" in any letter case
DeclinedAnyCase(r) ==
  /\ Len(r) = Len(Declined)
  /\ \A k \in DOMAIN r : r[k] \in {Declined[k], declined[k]}

BeginsWithMark(summary) == summary # <<>> /\ summary[1] = Cross

DeclinedOrCancelled(e) == DeclinedAnyCase(e.rsvp) \/ BeginsWithMark(e.summary)

Inserts == {k \in DOMAIN log : log[k].op = "insert"}

Deletes == {k \in DOMAIN log : log[k].op = "delete"}

\* the filter sets that read a source collection
UsedFilters ==
  {k \in DOMAIN config.filter_sets :
     /\ config.filter_sets[k].filters.calendar_name \in DOMAIN src
     /\ config.filter_sets[k].filters.calendar_name # config.dest_calendar}

\* the source documents that are fetched and matched by a used filter set
Matched ==
  {e \in UNION {Docs(source_events(c, src, config)) : c \in DOMAIN src} :
     \E k \in UsedFilters : match_event(e, config.filter_sets[k])}

KeepDisabled == ~config.past_keep_days.set \/ config.past_keep_days.n < 0

\* the three triggers, restated on a destination document d of the snapshot
Expired(d) ==
  /\ config.past_keep_days.set
  /\ \/ /\ config.past_keep_days.n = 0
        /\ d.dtend # NoTime
        /\ ToAware(d.dtend) < Now
     \/ /\ config.past_keep_days.n > 0
        /\ ToAware(d.dtstart) < Now - config.past_keep_days.n * Day

Orphan(d) ==
  /\ d.x_original_uid # NoUid
  /\ \A k \in DOMAIN transformed : transformed[k].original_uid # d.x_original_uid

FirstTransformedDeclined(d) ==
  \E k \in DOMAIN transformed :
    /\ event_uid(transformed[k]) = dest_key(d)
    /\ \A j \in 1..(k - 1) : event_uid(transformed[j]) # dest_key(d)
    /\ DeclinedOrCancelled(transformed[k])

---------------------------------------------------------------------------
(* Properties *)

\* C1: a second run in a row, with sources and destination untouched in between,
\* leaves the destination with the same number of records and the same identity
\* keys, each as often, as the first run left it.
C1_Idempotent ==
  (Done /\ last_done) =>
    /\ Len(dest) = Len(dest_events)
    /\ \A key \in KeysOf(dest) \cup KeysOf(dest_events) :
         KeyCount(dest, key) = KeyCount(dest_events, key)

\* C2: when a run has finished, for any two records of its transformed list with
\* the same identity key the destination holds at most one record with that key.
C2_DedupWithinRun ==
  Done =>
    \A i, j \in DOMAIN transformed :
      (i # j /\ event_uid(transformed[i]) = event_uid(transformed[j])) =>
        KeyCount(dest, event_uid(transformed[i])) <= 1

\* C3: no insert of a run is made from a source record whose participation
\* status is "DECLINED" in any letter case or whose summary begins with the
\* cancellation marker.
C3_DeclineSuppression ==
  \A k \in Inserts :
    ~DeclinedOrCancelled(src[log[k].from.calendar][log[k].from.pos])

C3_Witness ==
  /\ Done
  /\ Inserts # {}
  /\ \E e \in Matched : e.rsvp = declined
  /\ \E e \in Matched : BeginsWithMark(e.summary)

\* C4: if the destination held, when the run started, a record with the origin
\* identity of a fetched source record that is declined or cancel-marked, then
\* when the run has finished no destination record carries that origin identity.
C4_DeclineRemoval ==
  Done =>
    \A d \in Docs(dest_events) : \A e \in Matched :
      (d.x_original_uid # NoUid /\ e.uid = d.x_original_uid /\ DeclinedOrCancelled(e))
        => OriginCount(dest, d.x_original_uid) = 0

\* C5 as stated: every destination record of the snapshot whose participation
\* status is "DECLINED" in any letter case, or whose summary begins with the
\* cancellation marker, is gone when the run has finished.
C5_DestDeclinedDeleted ==
  Done => \A d \in Docs(dest_events) : DeclinedOrCancelled(d) => ~InDest(d)

\* C5 as amended: every destination record whose summary begins with the
\* cancellation marker is gone when the run has finished, whatever the other
\* triggers say; so is every record for which the first transformed record with
\* its identity key is declined or cancel-marked; and a record is deleted only
\* when retention, the orphan test, the marker or that transformed record says
\* so, the record's own participation status being read nowhere.
C5_CancelAndSourceDecline ==
  Done =>
    \A d \in Docs(dest_events) :
      /\ BeginsWithMark(d.summary) => ~InDest(d)
      /\ FirstTransformedDeclined(d) => ~InDest(d)
      /\ ~InDest(d) =>
           \/ Expired(d) \/ Orphan(d)
           \/ BeginsWithMark(d.summary) \/ FirstTransformedDeclined(d)

C5_Witness ==
  /\ Done
  /\ \E d \in Docs(dest_events) :
       BeginsWithMark(d.summary) /\ ~Expired(d) /\ ~Orphan(d) /\ ~InDest(d)
  /\ \E d \in Docs(dest_events) : DeclinedAnyCase(d.rsvp) /\ InDest(d)

\* C6: when a run has finished, the destination holds no record that was there
\* when the run started and carries an origin identity that is not an identity
\* of the run's transformed records.
C6_OrphanRemoval ==
  Done =>
    \A d \in Docs(dest_events) :
      (d.x_original_uid # NoUid /\ d.x_original_uid \notin source_event_uids)
        => ~InDest(d)

C6_Witness ==
  /\ Done
  /\ \E d \in Docs(dest_events) :
       /\ Orphan(d) /\ ~Expired(d) /\ ~BeginsWithMark(d.summary)
       /\ ~InDest(d)
  /\ \E d \in Docs(dest_events) : d.x_original_uid # NoUid /\ InDest(d)

\* C7: with keepPastDays = N > 0, a destination record that starts exactly N days
\* before now is not marked by the retention pass, and one that starts exactly
\* N + 1 days before now is marked and is gone when the run has finished.
C7_RetentionBoundary ==
  (pc # "idle" /\ config.past_keep_days.set /\ config.past_keep_days.n > 0) =>
    \A d \in Docs(dest_events) :
      /\ ToAware(d.dtstart) = Now - config.past_keep_days.n * Day
           => ~seq_has(events_to_delete, d)
      /\ ToAware(d.dtstart) = Now - (config.past_keep_days.n + 1) * Day
           => seq_has(events_to_delete, d) /\ (Done => ~InDest(d))

C7_Witness ==
  /\ Done
  /\ config.past_keep_days.set /\ config.past_keep_days.n > 0
  /\ \E d \in Docs(dest_events) :
       /\ ToAware(d.dtstart) = Now - config.past_keep_days.n * Day
       /\ InDest(d)
  /\ \E d \in Docs(dest_events) :
       /\ ToAware(d.dtstart) = Now - (config.past_keep_days.n + 1) * Day
       /\ ~InDest(d)

\* C8: with keepPastDays = 0, every destination record whose end is earlier than
\* now is gone when the run has finished, and the retention pass marks no record
\* whose end is now or later.
C8_KeepZero ==
  (pc # "idle" /\ config.past_keep_days.set /\ config.past_keep_days.n = 0) =>
    \A d \in Docs(dest_events) :
      /\ (d.dtend # NoTime /\ ToAware(d.dtend) < Now)
           => seq_has(events_to_delete, d) /\ (Done => ~InDest(d))
      /\ (d.dtend # NoTime /\ ToAware(d.dtend) >= Now)
           => ~seq_has(events_to_delete, d)

C8_Witness ==
  /\ Done
  /\ config.past_keep_days.set /\ config.past_keep_days.n = 0
  /\ \E d \in Docs(dest_events) :
       d.dtend # NoTime /\ ToAware(d.dtend) < Now /\ ~InDest(d)
  /\ \E d \in Docs(dest_events) :
       /\ d.dtend # NoTime /\ ToAware(d.dtend) = Now
       /\ ToAware(d.dtstart) < Now /\ InDest(d)

\* C9: with keepPastDays negative or not configured the retention pass marks no
\* record, and every record the run deletes is an orphan, begins with the
\* cancellation marker, or has a declined first transformed record.
C9_RetentionDisabled ==
  (pc # "idle" /\ KeepDisabled) =>
    /\ events_to_delete = <<>>
    /\ \A k \in Deletes :
         \/ Orphan(log[k].doc)
         \/ BeginsWithMark(log[k].doc.summary)
         \/ FirstTransformedDeclined(log[k].doc)

C9_Witness ==
  /\ Done
  /\ config.past_keep_days.set /\ config.past_keep_days.n < 0
  /\ Deletes # {}
  /\ \E d \in Docs(dest_events) :
       /\ ToAware(d.dtstart) < Now - Day
       /\ d.dtend # NoTime /\ ToAware(d.dtend) < Now
       /\ InDest(d)

\* C10: within one run no delete of a destination record follows an insert.
C10_DeletesBeforeInserts ==
  \A i \in Inserts : \A j \in Deletes : j < i

C10_Witness == Done /\ Inserts # {} /\ Deletes # {}

\* the snapshot documents that this run did not mark for deletion
AfterDeletions ==
  LET kept(d) == ~seq_has(events_to_delete, d) /\ ~seq_has(remaining_events_to_delete, d)
  IN  SelectSeq(dest_events, kept)

InsertedFrom(e) == \E i \in Inserts : log[i].from = e

\* C11: when a run has finished, a transformed record was inserted exactly when
\* no destination record with its identity key remained after the deletions of
\* the run; a record whose copy the run deleted is inserted again by that run.
C11_InsertGateAfterDeletions ==
  Done =>
    \A k \in DOMAIN transformed :
      InsertedFrom(transformed[k])
        <=> KeyCount(AfterDeletions, event_uid(transformed[k])) = 0

\* a snapshot document that none of the deletion triggers hits
Untriggered(d) ==
  /\ ~Expired(d)
  /\ ~Orphan(d)
  /\ ~BeginsWithMark(d.summary)
  /\ ~FirstTransformedDeclined(d)

\* C12: when a run has finished, every destination document that was there when
\* the run started and is hit by no deletion trigger is still there, and the
\* document stored under its uid has the content it had before the run.
C12_NoInPlaceEdit ==
  Done =>
    \A d \in Docs(dest_events) :
      Untriggered(d) =>
        /\ InDest(d)
        /\ \A x \in Docs(dest) : x.uid = d.uid => x = d

\* a kept document whose source record now transforms to another summary
C12_Witness ==
  /\ Done
  /\ \E d \in Docs(dest_events) :
       /\ Untriggered(d)
       /\ InDest(d)
       /\ \E k \in DOMAIN transformed :
            /\ event_uid(transformed[k]) = dest_key(d)
            /\ transformed[k].summary # d.summary

\* C13: a delete or an insert that fails does not end the run.
C13_MutationFailureContinues == error \in {"delete", "insert"} => pc # "failed"

\* the configured destination name is the name of a collection
Resolvable == config.dest_calendar \in DOMAIN src \cup {"Dest"}

\* C14: while the destination name cannot be resolved, every step ends in the
\* failed state with the configuration error, no collection has been searched,
\* no delete or insert is logged, and no collection changes.
C14_UnresolvedDestinationStep ==
  [][~Resolvable =>
       /\ pc' = "failed"
       /\ error' = "config"
       /\ fetched' = {}
       /\ log' = <<>>
       /\ dest' = dest
       /\ src' = src]_vars

\* a run on an unknown destination name has failed, with documents in the
\* collection "Dest" and in a source that a filter set names
C14_Witness ==
  /\ ~Resolvable
  /\ pc = "failed"
  /\ error = "config"
  /\ dest # <<>>
  /\ \E k \in DOMAIN config.filter_sets :
       /\ config.filter_sets[k].filters.calendar_name \in DOMAIN src
       /\ src[config.filter_sets[k].filters.calendar_name] # <<>>

\* C15: a document that cannot be parsed or lacks a required field does not end
\* the run.
C15_ParseFailureSkipsDocument == error = "parse" => pc # "failed"

\* C16: a complete run that follows a run ended before its end leaves exactly
\* one destination record for each origin identity of the transformed list and
\* no destination record with an origin identity outside that list.
C16_CrashRecovery ==
  (Done /\ runs > 1 /\ ~last_done) =>
    /\ \A k \in DOMAIN transformed :
         transformed[k].original_uid # NoUid
           => OriginCount(dest, transformed[k].original_uid) = 1
    /\ \A d \in Docs(dest) :
         d.x_original_uid # NoUid
           => \E k \in DOMAIN transformed :
                transformed[k].original_uid = d.x_original_uid

\* C18: no step of any run changes the documents of a collection other than the
\* destination.
C18_SourcesUnchangedStep == [][src' = src]_vars

\* a finished run that deleted from and inserted into the destination while a
\* source it read holds documents
C18_Witness ==
  /\ Done
  /\ Inserts # {}
  /\ Deletes # {}
  /\ \E cal \in fetched : src[cal] # <<>>

\* the entries of a configured list
Entries(val) == {val.v[k] : k \in DOMAIN val.v}

\* the conjunction of the clauses of a filter set on a record; an absent
\* location counts as the empty text
AllClauses(e, f) ==
  LET loc == IF e.location = NoneT THEN <<>> ELSE e.location
  IN  /\ f.calendar_name # "" => e.calendar = f.calendar_name
      /\ f.not_calendar_name # "" => e.calendar # f.not_calendar_name
      /\ \A s \in Entries(f.event_name_contains) : Contains(s, e.summary)
      /\ \A s \in Entries(f.event_name_not_contains) : ~Contains(s, e.summary)
      /\ \A s \in Entries(f.location_contains) : Contains(s, loc)
      /\ \A s \in Entries(f.location_not_contains) : ~Contains(s, loc)

MatchReturned == call.fn = "match" /\ call.state = "returned"

\* C19: match_event returns true when all clauses of the filter set hold for
\* the record and false when one does not, an empty list holding vacuously and
\* an absent location counting as empty.
C19_MatchIsConjunction ==
  MatchReturned =>
    call.result = IF AllClauses(call.event, call.arg.filters) THEN "true" ELSE "false"

TransformReturned == call.fn = "transform" /\ call.state = "returned"

\* the summary transform_event decides on: the override if set, else the record's
SummaryAfterOverride ==
  IF call.arg.set_event_name # NoneT THEN call.arg.set_event_name
  ELSE call.event.summary

ContainsHit ==
  \E s \in Entries(call.arg.strip_if_event_name_contains) :
    Contains(Normalize(s), Normalize(SummaryAfterOverride))

NotContainsAbsent ==
  \E s \in Entries(call.arg.strip_if_event_name_not_contains) :
    ~Contains(Normalize(s), Normalize(SummaryAfterOverride))

InsertedTwice ==
  {p \in (DOMAIN dest) \X (DOMAIN dest) :
     /\ p[1] < p[2]
     /\ dest[p[1]].uid >= FreshBase
     /\ dest[p[2]].uid >= FreshBase
     /\ dest_key(dest[p[1]]) = dest_key(dest[p[2]])}

\* the source documents of every collection have identities that are all distinct
DistinctSources ==
  \A c \in DOMAIN src : \A i, j \in DOMAIN src[c] :
    i # j => src[c][i].uid # src[c][j].uid

\* C17: two invocations that each run once end up with two inserted records of
\* one identity key only through the race: each of them read the destination
\* when it held no record with that key, and each insert has its own uid, so
\* the no-overwrite check never refuses one.
C17_DuplicateOnlyByRace ==
  \A p \in InsertedTwice :
    /\ dest_key(dest[p[1]]) \notin dest_keys
    /\ dest_key(dest[p[1]]) \notin other.dest_keys
    /\ dest[p[1]].uid # dest[p[2]].uid

\* both invocations have finished and the destination holds two records with
\* the same identity key, the identities of the sources being all distinct
C17_Witness ==
  /\ Done
  /\ other.pc = "done"
  /\ DistinctSources
  /\ Len(config.filter_sets) = 1
  /\ InsertedTwice # {}

\* a snapshot document without the origin-identity field
Foreign(d) == d.x_original_uid = NoUid

\* C24 as stated: a destination document without the origin-identity field that
\* a finished run has removed was hit by the retention check or begins with the
\* cancellation marker.
C24_ForeignOnlyRetentionOrMarker ==
  Done =>
    \A d \in Docs(dest_events) :
      (Foreign(d) /\ ~InDest(d)) => (Expired(d) \/ BeginsWithMark(d.summary))

\* C24: a destination document without the origin-identity field that a
\* finished run has removed was hit by the retention check, begins with the
\* cancellation marker, or has as its uid the identity key of a transformed
\* record of which the first is declined or cancel-marked; that its uid is
\* not an identity of the transformed records never removes it.
C24_ForeignNeverOrphaned ==
  Done =>
    \A d \in Docs(dest_events) :
      (Foreign(d) /\ ~InDest(d))
        => (Expired(d) \/ BeginsWithMark(d.summary) \/ FirstTransformedDeclined(d))

\* a document of other origin whose uid is no identity of the transformed
\* records is still there after a run that deleted an orphan
C24_Witness ==
  /\ Done
  /\ \E d \in Docs(dest_events) :
       Foreign(d) /\ dest_key(d) \notin source_event_uids /\ InDest(d)
  /\ \E d \in Docs(dest_events) : Orphan(d) /\ ~InDest(d)

\* the location transform_event decides on: the override if set, else the
\* record's, an absent one counting as empty
LocationAfterOverride ==
  IF call.arg.set_location # NoneT THEN call.arg.set_location
  ELSE call.event.location

LocationText ==
  Normalize(IF TruthyText(LocationAfterOverride) THEN LocationAfterOverride ELSE <<>>)

LocationContainsHit ==
  \E s \in Entries(call.arg.strip_if_location_contains) :
    Contains(Normalize(s), LocationText)

LocationNotContainsAbsent ==
  \E s \in Entries(call.arg.strip_if_location_not_contains) :
    ~Contains(Normalize(s), LocationText)

\* C21: transform_event empties the location by the decision it takes for the
\* summary, on the location text and the location lists: exactly when no
\* strip-if-location-not-contains entry is absent from the location and the
\* unconditional flag is set or some strip-if-location-contains entry is in it.
C21_LocationStripSymmetric ==
  TransformReturned =>
    call.result.location =
      IF LocationNotContainsAbsent THEN LocationAfterOverride
      ELSE IF call.arg.strip_location \/ LocationContainsHit THEN <<>>
      ELSE LocationAfterOverride

\* C22: every document a run inserts carries the origin-identity field, and the
\* field holds the identity captured from the source record it was made from.
C22_InsertCarriesOrigin ==
  \A i \in Inserts :
    /\ log[i].doc.x_original_uid # NoUid
    /\ log[i].doc.x_original_uid = log[i].from.original_uid

\* a rule with an override summary, the unconditional location strip, no
\* summary strip and no conditional strip list
OverrideAndStripLocation(t) ==
  /\ t.set_event_name # NoneT
  /\ t.strip_location
  /\ ~t.strip_name
  /\ Entries(t.strip_if_event_name_contains) = {}
  /\ Entries(t.strip_if_event_name_not_contains) = {}
  /\ Entries(t.strip_if_location_contains) = {}
  /\ Entries(t.strip_if_location_not_contains) = {}

\* the inserts of the run made from the fetched record e with summary s and no
\* location text
InsertsOf(e, s) ==
  {i \in Inserts :
     /\ log[i].from.calendar = e.calendar
     /\ log[i].from.pos = e.pos
     /\ log[i].doc.summary = s
     /\ log[i].doc.location \in {<<>>, NoneT}}

\* C23: when a run has finished, for each filter set whose rule overrides the
\* summary with s and strips the location unconditionally, every fetched record
\* that the filter set matches, that is neither declined nor cancel-marked and
\* whose identity no destination record had when the run started, has exactly
\* one insert with summary s and empty location, also when the rule overrides
\* the location.
C23_OverrideThenStrip ==
  Done =>
    \A k \in UsedFilters :
      OverrideAndStripLocation(config.filter_sets[k].transformations) =>
        \A e \in Docs(source_events(config.filter_sets[k].filters.calendar_name,
                                    src, config)) :
          (/\ match_event(e, config.filter_sets[k])
           /\ ~DeclinedOrCancelled(e)
           /\ e.uid \notin KeysOf(dest_events))
            => Cardinality(InsertsOf(e,
                 config.filter_sets[k].transformations.set_event_name)) = 1

\* a finished run under a rule that overrides summary and location and strips
\* the location has inserted a record with the override summary and no
\* location, made from a record with another summary and a location
C23_Witness ==
  /\ Done
  /\ \E k \in UsedFilters :
       LET t == config.filter_sets[k].transformations
       IN  /\ OverrideAndStripLocation(t)
           /\ t.set_location # NoneT
           /\ \E i \in Inserts :
                /\ log[i].doc.summary = t.set_event_name
                /\ log[i].doc.location \in {<<>>, NoneT}
                /\ \E d \in Docs(src[log[i].from.calendar]) :
                     /\ d.uid = log[i].from.uid
                     /\ d.summary # t.set_event_name
                     /\ TruthyText(d.location)

\* the record filter set k makes of the fetched record e
ProducedBy(k, e) ==
  transform_event([e EXCEPT !.original_uid = e.uid],
                  config.filter_sets[k].transformations)

\* filter set k takes the fetched record e
TakenBy(k, e) ==
  /\ e \in Docs(source_events(config.filter_sets[k].filters.calendar_name, src, config))
  /\ match_event(e, config.filter_sets[k])
  /\ ~DeclinedOrCancelled(e)

\* C25: when a run has finished, the transformed list holds, for every filter
\* set that reads a source and every record as it was fetched that the filter
\* set matches and that is not declined, the record this filter set's rule
\* makes of the fetched record, and it holds nothing else: no filter set sees
\* what an earlier one made of a record.
C25_FilterSetsIsolated ==
  Done =>
    /\ \A k \in UsedFilters :
         \A e \in Docs(source_events(config.filter_sets[k].filters.calendar_name,
                                     src, config)) :
           TakenBy(k, e) => seq_has(transformed, ProducedBy(k, e))
    /\ \A i \in DOMAIN transformed :
         \E k \in UsedFilters :
           \E e \in Docs(source_events(config.filter_sets[k].filters.calendar_name,
                                       src, config)) :
             TakenBy(k, e) /\ transformed[i] = ProducedBy(k, e)

\* two filter sets on one collection have taken the same fetched record, the
\* earlier rule changes the record, and the later one has made its own record
\* of the fetched one
C25_Witness ==
  /\ Done
  /\ \E k1, k2 \in UsedFilters :
       /\ k1 < k2
       /\ config.filter_sets[k1].filters.calendar_name
            = config.filter_sets[k2].filters.calendar_name
       /\ \E e \in Docs(source_events(config.filter_sets[k1].filters.calendar_name,
                                      src, config)) :
            /\ TakenBy(k1, e)
            /\ TakenBy(k2, e)
            /\ ProducedBy(k1, e).summary # e.summary
            /\ ProducedBy(k2, e) # ProducedBy(k2, ProducedBy(k1, e))
            /\ seq_has(transformed, ProducedBy(k2, e))

====
